---------------------------- MODULE Spec2Model ----------------------------
(***************************************************************************)
(* Model of the uas-trajectory scripts:                                    *)
(*   exif/__init__.py  read_makerNotes, the MakerNotes binary decoder      *)
(*   trajectory.py     the per-flight camera-position pipeline             *)
(*   compare.py        the mean-absolute-difference comparison             *)
(* Each script is modelled by its own specification over its own           *)
(* variables; the variables of the other scripts stay at their initial     *)
(* value.                                                                  *)
(***************************************************************************)
EXTENDS Integers, Sequences, FiniteSets, TLC

VARIABLES
    makerNotes,   \* the byte string handed to read_makerNotes (0..255 each)
    layout,       \* the field list the buffer was built from (<<>>: not well formed)
    VALUES,       \* the module-level dict; `values` of a default-argument call is this object
    i,            \* the cursor of read_makerNotes
    nextHeader,   \* the tag id searched for
    pc,           \* "off" | "idle" | "loop" | "returned" | "error"
    err,          \* the exception that ended the call ("none" if none)
    calls,        \* calls of read_makerNotes made so far in this process
    tested,       \* history: cursor positions compared with nextHeader in this call
    matches,      \* history: the headers matched in this call, in order
    \* trajectory.py
    tpc,          \* position in the script: "off" | "start" | "read" | "merged" |
                  \*   "interpolated" | "levered" | "scaled" | "error" | "finished"
    flight,       \* number of the flight being processed (0 before the first)
    acc_scale,    \* the multiplier entered at the prompt
    pos,          \* the position table: rows GPST, X, Y, Z, sde, sdn, sdu
    orient,       \* the orientation table: rows Label, Yaw, Pitch, Roll
    time,         \* the timestamp (MRK) table: rows photoID, GPST, leverN, leverE, leverD
    mrk,          \* the joined table (interpol and camera_origin are this same object)
    written,      \* the flights whose output file has been written
    \* compare.py
    cpc,          \* position in the script: "off" | "loaded" | "diffed" | "meaned" | "printed"
    base, uas,    \* the two tables read: rows X, Y, Z
    X, Y, Z       \* the script's variables X, Y, Z

decVars == <<makerNotes, layout, VALUES, i, nextHeader, pc, err, calls, tested, matches>>

trajVars == <<tpc, flight, acc_scale, pos, orient, time, mrk, written>>

cmpVars == <<cpc, base, uas, X, Y, Z>>

vars == <<decVars, trajVars, cmpVars>>

(***************************************************************************)
(* Bounds of the model                                                     *)
(***************************************************************************)
MaxCalls == 2

\* flights selected in one run of trajectory.py
MaxFlights == 2

\* the floating-point format of the model: significand bits, and fraction bits of
\* the finest spacing (a float64 has 53 significand bits)
PrecBits == 4

FracBits == 3

(***************************************************************************)
(* exif/__init__.py : HEADERS, VALUES                                      *)
(***************************************************************************)
key_list == << "MAKE", "UNKNOWN", "SPEED_X", "SPEED_Y", "SPEED_Z", "PITCH",
               "YAW", "ROLL", "CAMERA_PITCH", "CAMERA_YAW", "CAMERA_ROLL" >>

val_list == << 1, 2, 3, 4, 5, 6, 7, 8, 9, 10, 11 >>

Keys == { key_list[k] : k \in 1..Len(key_list) }

None == [t |-> "None", v |-> << >>]

EmptyValues == [h \in Keys |-> None]

\* the three recognised type codes of a field header
TypePad == 1
TypeChar == 2
TypeFloat == 11

(***************************************************************************)
(* Python and struct primitives used by read_makerNotes                    *)
(***************************************************************************)
Min(a, b) == IF a < b THEN a ELSE b

\* makerNotes[a:b]: a slice never raises, it is cut at the end of the buffer
Slice(buf, a, b) == SubSeq(buf, a + 1, Min(b, Len(buf)))

\* makerNotes[i] is defined for 0 <= i < len only; beyond it raises IndexError
InRange(buf, k) == k >= 0 /\ k < Len(buf)

Byte(buf, k) == buf[k + 1]

\* struct.unpack(b"<L", s)[0] on a 4-byte slice
UnpackL(s) == s[1] + 256 * s[2] + 65536 * s[3] + 16777216 * s[4]

\* struct.unpack(b"<f", s)[0]: the float is identified by its IEEE-754 bit pattern
UnpackF(s) == [t |-> "float", v |-> << s[1] + 256 * s[2] + 65536 * s[3] + 16777216 * s[4] >>]

RECURSIVE JoinSpace(_)
\* ' '.join(chars)
JoinSpace(s) ==
    IF Len(s) = 0 THEN << >>
    ELSE IF Len(s) = 1 THEN s
    ELSE << s[1], 32 >> \o JoinSpace(Tail(s))

\* s[:-1]
DropLast(s) == IF Len(s) = 0 THEN s ELSE SubSeq(s, 1, Len(s) - 1)

\* ' '.join([d.decode() for d in data])[:-1]
DecodeChars(s) == [t |-> "str", v |-> DropLast(JoinSpace(s))]

\* bytes.decode() of one byte: UTF-8 accepts a lone byte below 0x80 only
Decodable(s) == \A k \in 1..Len(s) : s[k] < 128


(***************************************************************************)
(* exif/__init__.py : the body of the while loop of read_makerNotes        *)
(***************************************************************************)
End(p, e) == [kind |-> "end", pc |-> p, err |-> e, data |-> None, size |-> 0]

\* a loop that stops at the end of the buffer and returns what it has
ExhaustedReturns(buf, k) == End("returned", "none")

\* line 101 with the cursor at or beyond len(makerNotes): makerNotes[i] raises
Exhausted(buf, k) == End("error", "IndexError")

\* the float branch taken by every type code that is neither pad nor char
PayloadElseFloat(buf, k, ty, num) ==
    LET size == IF ty \in {TypePad, TypeChar} THEN num * 1 ELSE num * 4
        s    == Slice(buf, k + 8, k + 8 + size)
    IN  IF Len(s) # size
          THEN End("error", "struct.error")
        ELSE IF ty = TypePad
          THEN [kind |-> "store", pc |-> "loop", err |-> "none",
                data |-> [t |-> "tuple", v |-> << >>], size |-> size]
        ELSE IF ty = TypeChar
          THEN IF Decodable(s)
                 THEN [kind |-> "store", pc |-> "loop", err |-> "none",
                       data |-> DecodeChars(s), size |-> size]
                 ELSE End("error", "UnicodeDecodeError")
        ELSE IF num = 0
          THEN End("error", "IndexError")
        ELSE [kind |-> "store", pc |-> "loop", err |-> "none",
              data |-> UnpackF(SubSeq(s, size - 3, size)), size |-> size]

\* lines 108-122: the payload of a header at k with type code ty and count num
Payload(buf, k, ty, num) ==
    LET size == IF ty = TypeFloat THEN num * 4 ELSE num * 1
        s    == Slice(buf, k + 8, k + 8 + size)
    IN  IF ty \notin {TypePad, TypeChar, TypeFloat}
          THEN End("error", "ValueError")
        ELSE IF Len(s) # size
          THEN End("error", "struct.error")
        ELSE IF ty = TypePad
          THEN [kind |-> "store", pc |-> "loop", err |-> "none",
                data |-> [t |-> "tuple", v |-> << >>], size |-> size]
        ELSE IF ty = TypeChar
          THEN IF Decodable(s)
                 THEN [kind |-> "store", pc |-> "loop", err |-> "none",
                       data |-> DecodeChars(s), size |-> size]
                 ELSE End("error", "UnicodeDecodeError")
        ELSE IF num = 0
          THEN End("error", "IndexError")        \* ()[num-1] on the empty tuple
        ELSE [kind |-> "store", pc |-> "loop", err |-> "none",
              data |-> UnpackF(SubSeq(s, size - 3, size)), size |-> size]

\* lines 101-122: what one iteration does with the cursor at k, searching tag nh
Outcome(buf, k, nh) ==
    IF ~InRange(buf, k) THEN Exhausted(buf, k)
    ELSE IF Byte(buf, k) # nh
      THEN [kind |-> "skip", pc |-> "loop", err |-> "none", data |-> None, size |-> 0]
    ELSE IF \A p \in 1..Len(val_list) : val_list[p] # nh
      THEN End("error", "ValueError")            \* val_list.index(nextHeader)
    ELSE IF ~InRange(buf, k + 2)
      THEN End("error", "IndexError")            \* makerNotes[i+2]
    ELSE IF Len(Slice(buf, k + 4, k + 8)) # 4
      THEN End("error", "struct.error")          \* unpack(b"<L", short slice)
    ELSE Payload(buf, k, Byte(buf, k + 2), UnpackL(Slice(buf, k + 4, k + 8)))

\* key_list[val_list.index(nextHeader)]
HeaderOf(nh) == key_list[CHOOSE p \in 1..Len(val_list) : val_list[p] = nh]

\* a cursor that steps over the header and not over the payload
NextCursorHeaderOnly(k, size) == k + 8

\* line 124 followed by line 129
NextCursor(k, size) == (k + 8 + size - 1) + 1

\* a loop without its increment
SkipStuck(k) == k

\* line 129 on an iteration that matched nothing
Skip(k) == k + 1

\* line 126
SumNones(vals) == Cardinality({h \in Keys : vals[h] = None})

(***************************************************************************)
(* MakerNotes buffers handed to the decoder                                *)
(***************************************************************************)
Cnt(n) == << n % 256, (n \div 256) % 256, 0, 0 >>

Fld(ty, n, payload) == [type |-> ty, cnt |-> Cnt(n), payload |-> payload]

Header(tag, f) == << tag, 0, f.type, 0 >> \o f.cnt

RECURSIVE Encode(_, _)
\* the bytes of fields k.. of a field list: header, payload, header, payload, ...
Encode(fields, k) ==
    IF k > Len(fields) THEN << >>
    ELSE Header(val_list[k], fields[k]) \o fields[k].payload \o Encode(fields, k + 1)

\* a DJI-like field list: MAKE is a 4-char string, UNKNOWN has type ut and two
\* elements, the nine speeds and angles are single floats; v varies the payloads
GoodLayout(v, ut) ==
    [k \in 1..Len(val_list) |->
        IF k = 1 THEN Fld(TypeChar, 4, << 68 + v, 74, 73, 0 >>)
        ELSE IF k = 2
          THEN IF ut = TypeFloat
                 THEN Fld(ut, 2, << 1, 2, 3, 4, 40 + v, 0, 32, 65 >>)
                 ELSE Fld(ut, 2, << 97 + v, 98 >>)
        ELSE Fld(TypeFloat, 1, << 16 * k + v, 0, 128, 63 >>)]

\* the value a field of a field list stands for
FieldValue(f) ==
    IF f.type = TypePad THEN [t |-> "tuple", v |-> << >>]
    ELSE IF f.type = TypeChar THEN DecodeChars(f.payload)
    ELSE UnpackF(SubSeq(f.payload, Len(f.payload) - 3, Len(f.payload)))

\* the two-byte MakerNotes header that precedes the first field in a real image
NotesPrefix == << 73, 73 >>

WellFormedInputs ==
    { [buf |-> (IF v = 1 THEN NotesPrefix ELSE << >>) \o Encode(GoodLayout(v, ut), 1),
       layout |-> GoodLayout(v, ut)] : v \in 0..1, ut \in {TypePad, TypeChar, TypeFloat} }

Base == GoodLayout(0, TypePad)

With(k, f) == [Base EXCEPT ![k] = f]

Bad(buf) == [buf |-> buf, layout |-> << >>]

MalformedInputs ==
    { Bad(<< >>),
      Bad(<< 0, 0 >>),
      \* a tag is absent: the buffer ends after 4, after 10 fields
      Bad(Encode(SubSeq(Base, 1, 4), 1) \o << 0, 0 >>),
      Bad(Encode(SubSeq(Base, 1, 10), 1)),
      \* an unrecognised type code, in the first and in a later field
      Bad(Encode(With(1, Fld(5, 4, << 68, 74, 73, 0 >>)), 1)),
      Bad(Encode(With(5, Fld(3, 1, << 80, 0, 128, 63 >>)), 1)),
      \* the buffer ends inside a header
      Bad(Encode(SubSeq(Base, 1, 3), 1) \o << 4, 0 >>),
      Bad(Encode(SubSeq(Base, 1, 3), 1) \o << 4, 0, 5 >>),
      Bad(Encode(SubSeq(Base, 1, 3), 1) \o << 4, 0, 11, 0, 1 >>),
      \* the buffer ends inside a payload
      Bad(Encode(SubSeq(Base, 1, 2), 1) \o << 3, 0, 11, 0, 1, 0, 0, 0, 48, 0 >>),
      \* a count of 256 elements and a payload of 4 bytes
      Bad(Encode(With(3, [type |-> TypeFloat, cnt |-> << 0, 1, 0, 0 >>,
                          payload |-> << 48, 0, 128, 63 >>]), 1)),
      \* a char that is not UTF-8
      Bad(Encode(With(1, Fld(TypeChar, 4, << 200, 74, 73, 0 >>)), 1)),
      \* a float field of zero elements
      Bad(Encode(With(3, Fld(TypeFloat, 0, << >>)), 1)),
      \* filler bytes between the fields
      Bad(<< 0, 0, 0 >> \o Encode(SubSeq(Base, 1, 1), 1) \o << 0, 0 >>
            \o Encode(Base, 2)) }

Inputs == WellFormedInputs \cup MalformedInputs

(***************************************************************************)
(* exif/__init__.py : read_makerNotes, called with the default arguments   *)
(***************************************************************************)
\* the other two scripts are not running
TrajOff ==
    /\ tpc = "off" /\ flight = 0 /\ acc_scale = 0 /\ written = {}
    /\ pos = << >> /\ orient = << >> /\ time = << >> /\ mrk = << >>

CmpOff ==
    /\ cpc = "off" /\ base = << >> /\ uas = << >>
    /\ X = << >> /\ Y = << >> /\ Z = << >>

DecOff ==
    /\ makerNotes = << >> /\ layout = << >> /\ VALUES = EmptyValues
    /\ i = 0 /\ nextHeader = val_list[1] /\ pc = "off" /\ err = "none"
    /\ calls = 0 /\ tested = {} /\ matches = << >>

InitDec ==
    /\ TrajOff
    /\ CmpOff
    /\ makerNotes = << >>
    /\ layout = << >>
    /\ VALUES = EmptyValues
    /\ i = 0
    /\ nextHeader = val_list[1]
    /\ pc = "idle"
    /\ err = "none"
    /\ calls = 0
    /\ tested = {}
    /\ matches = << >>

\* read_makerNotes(B): values is VALUES, i = 0, nextHeader = val_list[0]
Call ==
    /\ pc # "loop"
    /\ calls < MaxCalls
    /\ \E inp \in Inputs :
         /\ makerNotes' = inp.buf
         /\ layout' = inp.layout
    /\ i' = 0
    /\ nextHeader' = val_list[1]
    /\ pc' = "loop"
    /\ err' = "none"
    /\ calls' = calls + 1
    /\ tested' = {}
    /\ matches' = << >>
    /\ UNCHANGED VALUES
    /\ UNCHANGED <<trajVars, cmpVars>>

\* an iteration that raises: the call ends and nothing is stored
Raise ==
    /\ pc = "loop"
    /\ LET o == Outcome(makerNotes, i, nextHeader)
       IN  /\ o.kind = "end"
           /\ pc' = o.pc
           /\ err' = o.err
    /\ tested' = IF InRange(makerNotes, i) THEN tested \cup {i} ELSE tested
    /\ UNCHANGED <<makerNotes, layout, VALUES, i, nextHeader, calls, matches>>
    /\ UNCHANGED <<trajVars, cmpVars>>

\* an iteration whose byte is not the tag searched for
NoMatch ==
    /\ pc = "loop"
    /\ Outcome(makerNotes, i, nextHeader).kind = "skip"
    /\ i' = Skip(i)
    /\ tested' = tested \cup {i}
    /\ UNCHANGED <<makerNotes, layout, VALUES, nextHeader, pc, err, calls, matches>>
    /\ UNCHANGED <<trajVars, cmpVars>>

\* the values dict after line 123
Stored(o) == [VALUES EXCEPT ![HeaderOf(nextHeader)] = o.data]

\* an iteration that decodes a field and leaves some field None
StoreContinue ==
    /\ pc = "loop"
    /\ LET o == Outcome(makerNotes, i, nextHeader)
       IN  /\ o.kind = "store"
           /\ SumNones(Stored(o)) # 0
           /\ VALUES' = Stored(o)
           /\ i' = NextCursor(i, o.size)
           /\ matches' = Append(matches, [pos |-> i, size |-> o.size,
                                          tag |-> nextHeader, field |-> HeaderOf(nextHeader)])
    /\ nextHeader' = nextHeader + 1
    /\ tested' = tested \cup {i}
    /\ UNCHANGED <<makerNotes, layout, pc, err, calls>>
    /\ UNCHANGED <<trajVars, cmpVars>>

\* an iteration that decodes a field and leaves no field None: break, return values
StoreBreak ==
    /\ pc = "loop"
    /\ LET o == Outcome(makerNotes, i, nextHeader)
       IN  /\ o.kind = "store"
           /\ SumNones(Stored(o)) = 0
           /\ VALUES' = Stored(o)
           /\ i' = i + 8 + o.size - 1
           /\ matches' = Append(matches, [pos |-> i, size |-> o.size,
                                          tag |-> nextHeader, field |-> HeaderOf(nextHeader)])
    /\ nextHeader' = nextHeader + 1
    /\ pc' = "returned"
    /\ tested' = tested \cup {i}
    /\ UNCHANGED <<makerNotes, layout, err, calls>>
    /\ UNCHANGED <<trajVars, cmpVars>>

Iterate == Raise \/ NoMatch \/ StoreContinue \/ StoreBreak

Next == Call \/ Raise \/ NoMatch \/ StoreContinue \/ StoreBreak

Spec == InitDec /\ [][Next]_vars

\* the interpreter runs the loop until it ends
FairSpec == Spec /\ WF_vars(Iterate)


RECURSIVE Run(_, _, _, _)
\* the whole call as a function: the loop run from cursor k, tag nh on dict vals
Run(buf, vals, k, nh) ==
    LET o == Outcome(buf, k, nh)
    IN  IF o.kind = "end" THEN [pc |-> o.pc, values |-> vals]
        ELSE IF o.kind = "skip" THEN Run(buf, vals, Skip(k), nh)
        ELSE LET st == [vals EXCEPT ![HeaderOf(nh)] = o.data]
             IN  IF SumNones(st) = 0 THEN [pc |-> "returned", values |-> st]
                 ELSE Run(buf, st, NextCursor(k, o.size), nh + 1)

(***************************************************************************)
(* Properties of read_makerNotes                                           *)
(***************************************************************************)
\* the cursor is on a byte equal to the tag searched for
AtTag == pc = "loop" /\ InRange(makerNotes, i) /\ Byte(makerNotes, i) = nextHeader

\* ... and the type byte of that header is none of pad, char, float
AtUnknownType ==
    /\ AtTag
    /\ InRange(makerNotes, i + 2)
    /\ Byte(makerNotes, i + 2) \notin {TypePad, TypeChar, TypeFloat}

\* C1: a call on a well-formed buffer returns normally, and every one of the
\* eleven fields then holds the value of that field's own payload in this buffer.
C1_WellFormedDecoded ==
    layout # << >> =>
        /\ pc # "error"
        /\ pc = "returned" =>
             \A k \in 1..Len(key_list) : VALUES[key_list[k]] = FieldValue(layout[k])

\* C2: the dictionary a call returns for buffer B depends on B alone: it is the
\* dictionary a first call on B returns, whatever calls were made before.
C2_Stateless ==
    pc = "returned" => VALUES = Run(makerNotes, EmptyValues, 0, val_list[1]).values

\* C4: when the scan reaches the end of the buffer while some field is still
\* None, the call ends with an error; a call that returns has no None field.
C4_FailsWhenTagAbsent ==
    [][ /\ (pc = "loop" /\ ~InRange(makerNotes, i) /\ SumNones(VALUES) > 0)
           => (pc' = "error" /\ err' = "IndexError" /\ VALUES' = VALUES)
        /\ (pc = "loop" /\ pc' = "returned") => SumNones(VALUES') = 0 ]_vars

C4_Witness ==
    /\ pc = "error" /\ err = "IndexError"
    /\ ~InRange(makerNotes, i)
    /\ Len(matches) >= 1
    /\ SumNones(VALUES) > 0

\* C5 as claimed: a matched tag whose type byte is unrecognised always ends the
\* call with ValueError, the field left unassigned.
C5_UnknownTypeValueError ==
    [][ AtUnknownType => (pc' = "error" /\ err' = "ValueError" /\ VALUES' = VALUES) ]_vars

\* C5 amended: a matched tag whose type byte is unrecognised ends the call with
\* an error and leaves the field unassigned; the error is ValueError when the
\* buffer holds the whole 8-byte header, struct.error when it ends before.
C5_UnknownTypeRaises ==
    [][ AtUnknownType =>
          /\ pc' = "error"
          /\ VALUES' = VALUES
          /\ err' = IF i + 8 <= Len(makerNotes) THEN "ValueError" ELSE "struct.error" ]_vars

C5_Witness ==
    /\ pc = "error" /\ err = "ValueError"
    /\ InRange(makerNotes, i + 7)
    /\ Byte(makerNotes, i) = nextHeader
    /\ Byte(makerNotes, i + 2) \notin {TypePad, TypeChar, TypeFloat}
    /\ Len(matches) >= 1
    /\ VALUES[HeaderOf(nextHeader)] = None

\* C9: after a header matched at position p with payload size s the next
\* position tested is p + 8 + s, no byte after the tag byte of a decoded field
\* (rest of header, payload) is tested as a tag, and the k-th header matched is
\* the k-th tag and fills the k-th field.
C9_CursorSkipsPayload ==
    /\ \A k \in 1..Len(matches) :
         LET m == matches[k]
         IN  /\ m.tag = val_list[1] + (k - 1)
             /\ m.field = key_list[k]
             /\ VALUES[key_list[k]] = Outcome(makerNotes, m.pos, m.tag).data
             /\ \A p \in tested : ~(p > m.pos /\ p < m.pos + 8 + m.size)
             /\ (\E p \in tested : p > m.pos) => (m.pos + 8 + m.size) \in tested
    /\ (pc = "loop" /\ Len(matches) > 0) =>
         LET m == matches[Len(matches)]
         IN  (\A p \in tested : p <= m.pos) => i = m.pos + 8 + m.size

C9_Witness ==
    /\ Len(matches) >= 3
    /\ matches[1].size > 0
    /\ matches[1].pos > 0
    /\ \E p \in tested : p > matches[1].pos /\ p < matches[2].pos

\* C10: the cursor grows on every iteration that stays in the loop, and every
\* call ends: it returns or raises.
C10_Terminates ==
    /\ [][ (pc = "loop" /\ pc' = "loop") => i' > i ]_vars
    /\ (pc = "loop") ~> (pc # "loop")

C10_Witness ==
    /\ pc = "returned"
    /\ Cardinality(tested) > Len(matches)
    /\ Len(matches) = Len(val_list)


(***************************************************************************)
(* Binary floating point, as numpy and pandas compute with it: a number is *)
(* an integer count of the finest spacing 2^-FracBits and carries PrecBits *)
(* significant bits; every operation rounds its exact result to the        *)
(* nearest representable number, ties to the even significand.             *)
(***************************************************************************)
RECURSIVE Pow2(_)
Pow2(n) == IF n = 0 THEN 1 ELSE 2 * Pow2(n - 1)

\* the count that stands for 1.0
One == Pow2(FracBits)

\* without np.abs the sign of the difference stays
AbsMissing(a) == a

\* np.abs
Abs(a) == IF a < 0 THEN -a ELSE a

RECURSIVE Ulp(_)
\* the spacing of the representable numbers at magnitude m
Ulp(m) == IF m < Pow2(PrecBits) THEN 1 ELSE 2 * Ulp(m \div 2)

\* the representable number nearest to num/den (den > 0)
RoundQ(num, den) ==
    LET a    == IF num < 0 THEN -num ELSE num
        u    == Ulp(a \div den)
        lo   == (a \div (den * u)) * u
        rem2 == 2 * (a - lo * den)
        up   == rem2 > den * u \/ (rem2 = den * u /\ (lo \div u) % 2 = 1)
        r    == IF up THEN lo + u ELSE lo
    IN  IF num < 0 THEN -r ELSE r

FAdd(a, b) == RoundQ(a + b, 1)

FSub(a, b) == RoundQ(a - b, 1)

FMul(a, b) == RoundQ(a * b, One)

FDiv(a, b) == IF b > 0 THEN RoundQ(a * One, b) ELSE RoundQ(-(a * One), -b)

\* an integer n divided by an integer k: true division, a float
IntDiv(n, k) == RoundQ(n * One, k)

(***************************************************************************)
(* trajectory.py                                                           *)
(***************************************************************************)
\* df[name] of a table held as a sequence of rows
Col(df, name) == [k \in 1..Len(df) |-> df[k][name]]

\* np.interp(x, xp, fp) for increasing xp: the end values outside the range,
\* slope * (x - xp[j]) + fp[j] inside, j the last sample at or before x
Interp(x, xp, fp) ==
    LET n == Len(xp)
    IN  IF x < xp[1] THEN fp[1]
        ELSE IF x >= xp[n] THEN fp[n]
        ELSE LET j     == CHOOSE j \in 1..(n - 1) : xp[j] <= x /\ x < xp[j + 1]
                 slope == FDiv(FSub(fp[j + 1], fp[j]), FSub(xp[j + 1], xp[j]))
             IN  FAdd(FMul(slope, FSub(x, xp[j])), fp[j])

\* the first interpolation reading the Y column
interpolatePositionMixed(p, m) ==
    [k \in 1..Len(m) |->
        [X   |-> Interp(m[k].GPST, Col(p, "GPST"), Col(p, "Y")),
         Y   |-> Interp(m[k].GPST, Col(p, "GPST"), Col(p, "Y")),
         Z   |-> Interp(m[k].GPST, Col(p, "GPST"), Col(p, "Z")),
         sde |-> Interp(m[k].GPST, Col(p, "GPST"), Col(p, "sde")),
         sdn |-> Interp(m[k].GPST, Col(p, "GPST"), Col(p, "sdn")),
         sdu |-> Interp(m[k].GPST, Col(p, "GPST"), Col(p, "sdu"))] @@ m[k]]

interpolatePosition(p, m) ==
    [k \in 1..Len(m) |->
        [X   |-> Interp(m[k].GPST, Col(p, "GPST"), Col(p, "X")),
         Y   |-> Interp(m[k].GPST, Col(p, "GPST"), Col(p, "Y")),
         Z   |-> Interp(m[k].GPST, Col(p, "GPST"), Col(p, "Z")),
         sde |-> Interp(m[k].GPST, Col(p, "GPST"), Col(p, "sde")),
         sdn |-> Interp(m[k].GPST, Col(p, "GPST"), Col(p, "sdn")),
         sdu |-> Interp(m[k].GPST, Col(p, "GPST"), Col(p, "sdu"))] @@ m[k]]

\* millimetres in a metre: the divisor of the lever-arm columns
MmPerM == 1000

\* the down offset added instead of subtracted
leverArmSign(df) ==
    [k \in 1..Len(df) |->
        [df[k] EXCEPT !.X = FAdd(@, IntDiv(df[k].leverE, MmPerM)),
                      !.Y = FAdd(@, IntDiv(df[k].leverN, MmPerM)),
                      !.Z = FAdd(@, IntDiv(df[k].leverD, MmPerM))]]

leverArm(df) ==
    [k \in 1..Len(df) |->
        [df[k] EXCEPT !.X = FAdd(@, IntDiv(df[k].leverE, MmPerM)),
                      !.Y = FAdd(@, IntDiv(df[k].leverN, MmPerM)),
                      !.Z = FSub(@, IntDiv(df[k].leverD, MmPerM))]]

\* a check that only asks for enough timestamps
RowsMatchAtLeast(t, o) == Len(t) >= Len(o)

\* line 263
RowsMatch(t, o) == Len(t) = Len(o)

\* orient.join(time).drop(["photoID"], axis=1): a join on the row index, which
\* keeps the rows of orient
Join(o, t) ==
    [k \in 1..Len(o) |->
        [Label |-> o[k].Label, Yaw |-> o[k].Yaw, Pitch |-> o[k].Pitch, Roll |-> o[k].Roll,
         GPST |-> t[k].GPST, leverN |-> t[k].leverN, leverE |-> t[k].leverE,
         leverD |-> t[k].leverD]]

\* lines 275-277
ScaleAccuracy(df, sc) ==
    [k \in 1..Len(df) |->
        [df[k] EXCEPT !.sde = FMul(@, sc), !.sdn = FMul(@, sc), !.sdu = FMul(@, sc)]]

\* camera_origin[reorder]
Reorder(df) ==
    [k \in 1..Len(df) |->
        [Label |-> df[k].Label, X |-> df[k].X, Y |-> df[k].Y, Z |-> df[k].Z,
         Yaw |-> df[k].Yaw, Pitch |-> df[k].Pitch, Roll |-> df[k].Roll,
         sde |-> df[k].sde, sdn |-> df[k].sdn, sdu |-> df[k].sdu]]

\* --- the files a run may be given: values are counts of 2^-FracBits ---
PosRow(g, x, y, z, e, n, u) ==
    [GPST |-> g, X |-> x, Y |-> y, Z |-> z, sde |-> e, sdn |-> n, sdu |-> u]

PosTables ==
    { << PosRow(8, 10, 3, 14, 1, 2, 3), PosRow(16, 13, 7, 14, 2, 2, 1),
         PosRow(24, 15, 12, 9, 1, 3, 2) >>,
      << PosRow(8, 15, -6, 16, 2, 1, 1), PosRow(12, 20, 0, 18, 1, 1, 2),
         PosRow(24, 28, 5, 22, 3, 2, 1) >> }

OrientRow(l, yw, p, r) == [Label |-> l, Yaw |-> yw, Pitch |-> p, Roll |-> r]

OrientTables ==
    { << OrientRow("a", 8, -4, 0), OrientRow("b", 10, -4, 1), OrientRow("c", 12, -5, 0) >>,
      << OrientRow("a", 8, -4, 0), OrientRow("b", 10, -4, 1) >> }

TimeRow(id, g, n, e, d) ==
    [photoID |-> id, GPST |-> g, leverN |-> n, leverE |-> e, leverD |-> d]

TimeTables ==
    { << TimeRow(1, 8, 125, 250, 294), TimeRow(2, 16, 0, -125, 375),
         TimeRow(3, 24, 250, 250, -250) >>,
      << TimeRow(1, 10, 125, -125, 250), TimeRow(2, 16, 0, 0, 0),
         TimeRow(3, 27, 294, 125, 125) >>,
      << TimeRow(1, 8, 0, 125, 125), TimeRow(2, 12, 125, 0, -125),
         TimeRow(3, 24, -125, 250, 250) >>,
      << TimeRow(1, 12, 125, 250, 250), TimeRow(2, 20, 250, 125, 125) >> }

\* the multipliers entered at the prompt: 1.0 and 1.5
AccScales == { One, One + One \div 2 }

InitTraj ==
    /\ DecOff
    /\ CmpOff
    /\ tpc = "start"
    /\ flight = 0
    /\ acc_scale \in AccScales
    /\ pos = << >> /\ orient = << >> /\ time = << >> /\ mrk = << >>
    /\ written = {}

TrajOnly == UNCHANGED <<decVars, cmpVars>>

\* lines 184-260: the next flight's three files are read
ReadFiles ==
    /\ tpc \in {"start", "written"}
    /\ flight < MaxFlights
    /\ flight' = flight + 1
    /\ pos' \in PosTables
    /\ orient' \in OrientTables
    /\ time' \in TimeTables
    /\ mrk' = << >>
    /\ tpc' = "read"
    /\ UNCHANGED <<acc_scale, written>>
    /\ TrajOnly

\* lines 263-264
Merge ==
    /\ tpc = "read"
    /\ RowsMatch(time, orient)
    /\ mrk' = Join(orient, time)
    /\ tpc' = "merged"
    /\ UNCHANGED <<flight, acc_scale, pos, orient, time, written>>
    /\ TrajOnly

\* lines 265-266: the ValueError ends the script
MergeError ==
    /\ tpc = "read"
    /\ ~RowsMatch(time, orient)
    /\ tpc' = "error"
    /\ UNCHANGED <<flight, acc_scale, pos, orient, time, mrk, written>>
    /\ TrajOnly

\* line 269
Interpolate ==
    /\ tpc = "merged"
    /\ mrk' = interpolatePosition(pos, mrk)
    /\ tpc' = "interpolated"
    /\ UNCHANGED <<flight, acc_scale, pos, orient, time, written>>
    /\ TrajOnly

\* line 272
ApplyLeverArm ==
    /\ tpc = "interpolated"
    /\ mrk' = leverArm(mrk)
    /\ tpc' = "levered"
    /\ UNCHANGED <<flight, acc_scale, pos, orient, time, written>>
    /\ TrajOnly

\* lines 275-277
Scale ==
    /\ tpc = "levered"
    /\ mrk' = ScaleAccuracy(mrk, acc_scale)
    /\ tpc' = "scaled"
    /\ UNCHANGED <<flight, acc_scale, pos, orient, time, written>>
    /\ TrajOnly

\* lines 280-282: the flight's file holds the reordered columns
WriteCsv ==
    /\ tpc = "scaled"
    /\ written' = written \cup { [flight |-> flight, rows |-> Reorder(mrk)] }
    /\ tpc' = "written"
    /\ UNCHANGED <<flight, acc_scale, pos, orient, time, mrk>>
    /\ TrajOnly

\* line 287: no flight is left
Finish ==
    /\ tpc \in {"start", "written"}
    /\ tpc' = "finished"
    /\ UNCHANGED <<flight, acc_scale, pos, orient, time, mrk, written>>
    /\ TrajOnly

NextTraj ==
    ReadFiles \/ Merge \/ MergeError \/ Interpolate \/ ApplyLeverArm \/ Scale
        \/ WriteCsv \/ Finish

SpecTraj == InitTraj /\ [][NextTraj]_vars


(***************************************************************************)
(* Properties of trajectory.py                                             *)
(***************************************************************************)
\* C3: when the orientation and timestamp tables of a flight differ in row
\* count the flight ends in an error at the check: nothing is joined,
\* interpolated, corrected or written for it, and no table is cut to the other.
C3_MismatchRaises ==
    [][ /\ (tpc = "read" /\ Len(time) # Len(orient))
           => (tpc' = "error" /\ mrk' = << >> /\ written' = written)
        /\ (tpc' \in {"merged", "interpolated", "levered", "scaled", "written"})
           => (Len(time') = Len(orient') /\ Len(mrk') = Len(time'))
        /\ \A w \in written' :
             w.flight = flight' => (Len(w.rows) = Len(orient') /\ Len(w.rows) = Len(time'))
      ]_vars

C3_Witness ==
    /\ tpc = "error"
    /\ Len(time) > Len(orient)
    /\ flight = 2
    /\ \A w \in written : w.flight # flight
    /\ written # {}

\* C6: after interpolatePosition every photo whose timestamp equals the GPST
\* of a position row holds that row's X, Y, Z, sde, sdn and sdu.
C6_ExactTimestamp ==
    tpc = "interpolated" =>
        \A r \in 1..Len(mrk), j \in 1..Len(pos) :
            mrk[r].GPST = pos[j].GPST =>
                /\ mrk[r].X = pos[j].X /\ mrk[r].Y = pos[j].Y /\ mrk[r].Z = pos[j].Z
                /\ mrk[r].sde = pos[j].sde /\ mrk[r].sdn = pos[j].sdn
                /\ mrk[r].sdu = pos[j].sdu

C6_Witness ==
    /\ tpc = "interpolated"
    /\ Len(mrk) = 3 /\ Len(pos) = 3
    /\ \A r \in 1..3 : mrk[r].GPST = pos[r].GPST
    /\ pos[2].X # pos[2].Y

\* the columns leverArm does not assign
OtherColumns(r) ==
    << r.Label, r.Yaw, r.Pitch, r.Roll, r.GPST, r.leverN, r.leverE, r.leverD,
       r.sde, r.sdn, r.sdu >>

\* a row of the corrected table with the applied offsets subtracted again
Reversed(r) ==
    [X |-> FSub(r.X, IntDiv(r.leverE, MmPerM)),
     Y |-> FSub(r.Y, IntDiv(r.leverN, MmPerM)),
     Z |-> FAdd(r.Z, IntDiv(r.leverD, MmPerM))]

LeverStep == tpc = "interpolated" /\ tpc' = "levered"

\* C7 as claimed: subtracting the applied offsets from the corrected X, Y, Z
\* gives back exactly the X, Y, Z before leverArm; other columns are unchanged.
C7_ReversibleExactly ==
    [][ LeverStep =>
          \A k \in 1..Len(mrk) :
              /\ Reversed(mrk'[k]).X = mrk[k].X
              /\ Reversed(mrk'[k]).Y = mrk[k].Y
              /\ Reversed(mrk'[k]).Z = mrk[k].Z
              /\ OtherColumns(mrk'[k]) = OtherColumns(mrk[k]) ]_vars

\* C7 amended: leverArm sets X, Y, Z to the rounded sums and leaves the other
\* columns unchanged; subtracting the offsets gives back a coordinate exactly
\* when its sum was formed without rounding, and otherwise to within one
\* spacing (ulp) of the corrected coordinate.
C7_ReversibleUpToRounding ==
    [][ LeverStep =>
          /\ Len(mrk') = Len(mrk)
          /\ \A k \in 1..Len(mrk) :
              LET e == IntDiv(mrk[k].leverE, MmPerM)
                  n == IntDiv(mrk[k].leverN, MmPerM)
                  d == IntDiv(mrk[k].leverD, MmPerM)
                  b == Reversed(mrk'[k])
              IN  /\ mrk'[k].X = FAdd(mrk[k].X, e)
                  /\ mrk'[k].Y = FAdd(mrk[k].Y, n)
                  /\ mrk'[k].Z = FSub(mrk[k].Z, d)
                  /\ OtherColumns(mrk'[k]) = OtherColumns(mrk[k])
                  /\ (mrk'[k].X = mrk[k].X + e) => (b.X = mrk[k].X)
                  /\ (mrk'[k].Y = mrk[k].Y + n) => (b.Y = mrk[k].Y)
                  /\ (mrk'[k].Z = mrk[k].Z - d) => (b.Z = mrk[k].Z)
                  /\ Abs(b.X - mrk[k].X) <= Ulp(Abs(mrk'[k].X))
                  /\ Abs(b.Y - mrk[k].Y) <= Ulp(Abs(mrk'[k].Y))
                  /\ Abs(b.Z - mrk[k].Z) <= Ulp(Abs(mrk'[k].Z)) ]_vars

\* a corrected table with a row reversed exactly under a non-zero offset and a
\* row whose reversal is off by rounding
C7_Witness ==
    /\ tpc = "levered"
    /\ LET before == interpolatePosition(pos, Join(orient, time))
       IN  /\ \E k \in 1..Len(mrk) :
                 /\ IntDiv(mrk[k].leverE, MmPerM) # 0
                 /\ mrk[k].X # before[k].X
                 /\ Reversed(mrk[k]).X = before[k].X
           /\ \E k \in 1..Len(mrk) : Reversed(mrk[k]).X # before[k].X

(***************************************************************************)
(* compare.py                                                              *)
(***************************************************************************)
XYZ(a, b, c) == [X |-> a, Y |-> b, Z |-> c]

\* the camera tables the two files may hold
CameraTables ==
    { << XYZ(a, b, 15), XYZ(b, -a, 28) >> : a \in {3, 13}, b \in {-30, 7} }
      \cup
    { << XYZ(a, 1, b), XYZ(15, a, -7), XYZ(b, b, a) >> : a \in {-11, 24}, b \in {2, 14} }

RECURSIVE Sum(_)
\* the sum taken left to right, rounded after every addition
Sum(v) == IF Len(v) = 1 THEN v[1] ELSE FAdd(Sum(SubSeq(v, 1, Len(v) - 1)), v[Len(v)])

\* ndarray.mean(): the sum divided by the number of elements
Mean(v) == RoundQ(Sum(v), Len(v))

\* (base[c] - uas[c]).to_numpy()
Difference(b, u, c) == [k \in 1..Len(b) |-> FSub(b[k][c], u[k][c])]

\* np.abs(v).mean()
AbsMean(v) == Mean([k \in 1..Len(v) |-> Abs(v[k])])

\* lines 5-6: two files of the same number of rows
InitCmp ==
    /\ DecOff
    /\ TrajOff
    /\ cpc = "loaded"
    /\ base \in CameraTables
    /\ uas \in CameraTables
    /\ Len(base) = Len(uas)
    /\ X = << >> /\ Y = << >> /\ Z = << >>

CmpOnly == UNCHANGED <<decVars, trajVars>>

\* lines 8-10
Subtract ==
    /\ cpc = "loaded"
    /\ X' = Difference(base, uas, "X")
    /\ Y' = Difference(base, uas, "Y")
    /\ Z' = Difference(base, uas, "Z")
    /\ cpc' = "diffed"
    /\ UNCHANGED <<base, uas>>
    /\ CmpOnly

\* lines 12-14
TakeAbsMean ==
    /\ cpc = "diffed"
    /\ X' = AbsMean(X)
    /\ Y' = AbsMean(Y)
    /\ Z' = AbsMean(Z)
    /\ cpc' = "meaned"
    /\ UNCHANGED <<base, uas>>
    /\ CmpOnly

\* lines 16-18
PrintMeans ==
    /\ cpc = "meaned"
    /\ cpc' = "printed"
    /\ UNCHANGED <<base, uas, X, Y, Z>>
    /\ CmpOnly

NextCmp == Subtract \/ TakeAbsMean \/ PrintMeans

SpecCmp == InitCmp /\ [][NextCmp]_vars

\* C8: the value reported for an axis is the one the script computes with the
\* two tables swapped (uas - base in place of base - uas).
C8_Symmetric ==
    cpc \in {"meaned", "printed"} =>
        /\ X = AbsMean(Difference(uas, base, "X"))
        /\ Y = AbsMean(Difference(uas, base, "Y"))
        /\ Z = AbsMean(Difference(uas, base, "Z"))

\* a comparison with differences of both signs, one of them rounded
C8_Witness ==
    /\ cpc = "printed"
    /\ X > 0
    /\ \E k \in 1..Len(base) : base[k].X < uas[k].X
    /\ \E k \in 1..Len(base) : base[k].X > uas[k].X
    /\ \E k \in 1..Len(base) : FSub(base[k].X, uas[k].X) # base[k].X - uas[k].X

=============================================================================
